---- MODULE Spec2Model ----
(***************************************************************************)
(* A model of CodeFlattener (src/code_flattener.py): the ignore-pattern    *)
(* engine, the comment/blank-line normalizer, the token estimator and      *)
(* truncation step, the directory walk of flatten() and the report written *)
(* by save_output().                                                       *)
(*                                                                         *)
(* Text is modelled character by character: a Python str is a sequence of  *)
(* one-character strings.  Regular expressions are kept as their source    *)
(* text and interpreted by re_search.                                      *)
(***************************************************************************)
EXTENDS Integers, Sequences, FiniteSets, TLC

VARIABLES
    fs,                  \* the source tree: a set of file records (path segments, content, fault)
    ignore_patterns,     \* self.ignore_patterns: caller-supplied glob rules
    max_file_size,       \* CodeFlattener.max_file_size
    max_token_length,    \* CodeFlattener.max_token_length
    gitignore_patterns,  \* self.gitignore_patterns
    all_ignore_patterns, \* self.all_ignore_patterns
    flattened_content,   \* self.flattened_content
    file_stats,          \* self.file_stats: relative path -> FileStats
    pc,                  \* where flatten() stands: "new", "walk", "done", "raised"
    stack,               \* directories os.walk has still to yield, next first
    filenames,           \* files of the yielded directory not yet looked at
    visited,             \* files handed to _process_file so far (history)
    output,              \* the document save_output wrote
    output_file,         \* self.output_file: its path below the root, <<>> when it lies outside
    calls,               \* the calls of flatten() the caller has still to make
    previous,            \* file_stats, document and rules at the end of the call before (history)
    code,                \* text pipeline: the raw text under normalization
    file_path,           \* text pipeline: the name of the file it came from
    token_limit,         \* text pipeline: the max_token_length in force
    cleaned_content,     \* text pipeline: _clean_code(code, file_path)
    cleaned_twice,       \* text pipeline: _clean_code of cleaned_content
    body,                \* text pipeline: the body after the truncation step
    tpc,                 \* text pipeline position: "raw", "cleaned", "recleaned", "budgeted"
    rule,                \* rule matching: the glob text given to _glob_to_regex
    asked_path,          \* rule matching: the path asked about, as segments below the root
    compiled,            \* rule matching: _glob_to_regex(rule)
    matched,             \* rule matching: re.search(compiled, relative path) found a match
    ignored,             \* rule matching: _should_ignore(path) with compiled as the only rule
    rpc                  \* rule matching position: "rule", "compiled", "asked"

vars == <<fs, ignore_patterns, max_file_size, max_token_length, gitignore_patterns,
          all_ignore_patterns, flattened_content, file_stats, pc, stack, filenames,
          visited, output, output_file, calls, previous, code, file_path, token_limit, cleaned_content,
          cleaned_twice, body, tpc, rule, asked_path, compiled, matched, ignored, rpc>>

flattenVars == <<fs, ignore_patterns, max_file_size, max_token_length, gitignore_patterns,
                 all_ignore_patterns, flattened_content, file_stats, pc, stack, filenames,
                 visited, output, output_file, calls, previous>>

textVars == <<code, file_path, token_limit, cleaned_content, cleaned_twice, body, tpc>>

ruleVars == <<rule, asked_path, compiled, matched, ignored, rpc>>

(***************************************************************************)
(* Bounds of the model.                                                    *)
(***************************************************************************)
MaxFiles == 2
MaxQuoteLen == 12
MaxTextLen == 6
SmallFileLimit == 12
SmallTokenLimit == 3

(***************************************************************************)
(* Characters and Python str methods.                                      *)
(***************************************************************************)
LowerCase == <<"a", "b", "c", "d", "e", "f", "g", "h", "i", "j", "k", "l", "m", "n", "o", "p", "q", "r", "s", "t", "u", "v", "w", "x", "y", "z">>
UpperCase == <<"A", "B", "C", "D", "E", "F", "G", "H", "I", "J", "K", "L", "M", "N", "O", "P", "Q", "R", "S", "T", "U", "V", "W", "X", "Y", "Z">>
Digits == <<"0", "1", "2", "3", "4", "5", "6", "7", "8", "9">>
\* the printable ASCII characters in code-point order: ' ' (32) to '_' (95), and
\* 'a' (97) to '~' (126); the grave accent (96) cannot be written in a TLA+ string
PrintableLow == <<" ", "!", "\"", "#", "$", "%", "&", "'", "(", ")", "*", "+", ",", "-", ".", "/", "0", "1", "2", "3", "4", "5", "6", "7", "8", "9", ":", ";", "<", "=", ">", "?", "@", "A", "B", "C", "D", "E", "F", "G", "H", "I", "J", "K", "L", "M", "N", "O", "P", "Q", "R", "S", "T", "U", "V", "W", "X", "Y", "Z", "[", "\\", "]", "^", "_">>
PrintableHigh == <<"a", "b", "c", "d", "e", "f", "g", "h", "i", "j", "k", "l", "m", "n", "o", "p", "q", "r", "s", "t", "u", "v", "w", "x", "y", "z", "{", "|", "}", "~">>

\* characters that cannot be written in a string here, each kept as one
\* element of a text under the name of its code point: the grave accent of
\* the code fence, and the four characters the source file holds in the two
\* signs of the Project Structure (lines 285 and 291)
GraveAccent == "U+0060"
Eth == "U+00F0"
YDiaeresis == "U+0178"
LeftQuote == "U+201C"
LowQuote == "U+201E"

Range(s) == {s[i] : i \in 1..Len(s)}
WordChars == Range(LowerCase) \cup Range(UpperCase) \cup Range(Digits) \cup {"_"}
                 \cup {Eth, YDiaeresis}
SpaceChars == {" ", "\t", "\n", "\r"}
LineBreaks == {"\n", "\r"}

\* ord(c), for sorting
ord(c) == IF c \in Range(PrintableLow) THEN 31 + (CHOOSE i \in 1..Len(PrintableLow) : PrintableLow[i] = c)
          ELSE IF c \in Range(PrintableHigh) THEN 96 + (CHOOSE i \in 1..Len(PrintableHigh) : PrintableHigh[i] = c)
          ELSE IF c = "\t" THEN 9 ELSE IF c = "\n" THEN 10 ELSE 13

\* str.lower on one character
lower_char(c) == IF c \in Range(UpperCase)
                 THEN LowerCase[CHOOSE i \in 1..Len(UpperCase) : UpperCase[i] = c]
                 ELSE c
lower(s) == [i \in 1..Len(s) |-> lower_char(s[i])]

\* s[i:].startswith(p), with i counted from 1
StartsWithAt(s, i, p) == /\ i + Len(p) - 1 <= Len(s)
                         /\ \A k \in 1..Len(p) : s[i + k - 1] = p[k]
startswith(s, p) == StartsWithAt(s, 1, p)
endswith(s, p) == Len(p) <= Len(s) /\ StartsWithAt(s, Len(s) - Len(p) + 1, p)

\* str.replace(old, new): non-overlapping occurrences, left to right
RECURSIVE ReplaceFrom(_, _, _, _)
ReplaceFrom(s, i, old, new) ==
    IF i > Len(s) THEN <<>>
    ELSE IF StartsWithAt(s, i, old) THEN new \o ReplaceFrom(s, i + Len(old), old, new)
    ELSE <<s[i]>> \o ReplaceFrom(s, i + 1, old, new)
replace(s, old, new) == ReplaceFrom(s, 1, old, new)

\* str.strip() and str.rstrip()
RECURSIVE rstrip(_)
rstrip(s) == IF s # <<>> /\ s[Len(s)] \in SpaceChars THEN rstrip(SubSeq(s, 1, Len(s) - 1)) ELSE s
RECURSIVE lstrip(_)
lstrip(s) == IF s # <<>> /\ s[1] \in SpaceChars THEN lstrip(Tail(s)) ELSE s
strip(s) == lstrip(rstrip(s))

\* str.splitlines(): breaks at \n, \r and \r\n; no empty last line after a final break
\* the positions where a line of s ends: a line break that is not the "\r" of a "\r\n"
LineEnds(s) ==
    {i \in 1..Len(s) : s[i] \in LineBreaks /\ ~(s[i] = "\r" /\ i < Len(s) /\ s[i + 1] = "\n")}
\* the line of s that starts at position st, given the line ends of s
LineFrom(s, st, line_ends) ==
    LET ends == {e \in line_ends : e >= st}
    IN IF ends = {} THEN SubSeq(s, st, Len(s))
       ELSE LET e == CHOOSE x \in ends : \A y \in ends : x <= y
            IN IF s[e] = "\n" /\ e > st /\ s[e - 1] = "\r" THEN SubSeq(s, st, e - 2)
               ELSE SubSeq(s, st, e - 1)
\* str.splitlines()
splitlines(s) ==
    LET line_ends == LineEnds(s)
        starts == {st \in 1..Len(s) : st = 1 \/ (st - 1) \in line_ends}
        nth(k) == CHOOSE st \in starts : Cardinality({y \in starts : y < st}) = k - 1
    IN [k \in 1..Cardinality(starts) |-> LineFrom(s, nth(k), line_ends)]
\* sep.join(parts)
RECURSIVE join(_, _)
join(sep, parts) ==
    IF parts = <<>> THEN <<>>
    ELSE IF Len(parts) = 1 THEN parts[1]
    ELSE parts[1] \o sep \o join(sep, Tail(parts))

\* str.split(sep) for a one-character sep
RECURSIVE SplitFrom(_, _, _, _)
SplitFrom(s, i, sep, cur) ==
    IF i > Len(s) THEN <<cur>>
    ELSE IF s[i] = sep THEN <<cur>> \o SplitFrom(s, i + 1, sep, <<>>)
    ELSE SplitFrom(s, i + 1, sep, Append(cur, s[i]))
split(s, sep) == SplitFrom(s, 1, sep, <<>>)

\* s1 <= s2 in Python's str order (code points, shorter prefix first)
RECURSIVE StrLE(_, _)
StrLE(a, b) ==
    IF a = <<>> THEN TRUE
    ELSE IF b = <<>> THEN FALSE
    ELSE IF a[1] = b[1] THEN StrLE(Tail(a), Tail(b))
    ELSE ord(a[1]) < ord(b[1])

\* sorted(S) for a set of strs
RECURSIVE sorted(_)
sorted(S) ==
    IF S = {} THEN <<>>
    ELSE LET m == CHOOSE x \in S : \A y \in S : StrLE(x, y)
         IN <<m>> \o sorted(S \ {m})

\* the subsets of S with at most n elements
RECURSIVE SubsetsUpTo(_, _)
SubsetsUpTo(S, n) ==
    IF n = 0 THEN {{}}
    ELSE LET P == SubsetsUpTo(S, n - 1)
         IN P \cup {T \cup {x} : T \in {Q \in P : Cardinality(Q) = n - 1}, x \in S}

\* the sequences over alphabet A of length at most n
RECURSIVE SeqsUpTo(_, _)
SeqsUpTo(A, n) ==
    IF n = 0 THEN {<<>>}
    ELSE LET P == SeqsUpTo(A, n - 1)
         IN P \cup {Append(s, a) : s \in {q \in P : Len(q) = n - 1}, a \in A}

(***************************************************************************)
(* The regular expressions of the program, interpreted as re does.         *)
(* The program builds its rules from literal characters, backslash-escaped *)
(* characters, the dot, the class of non-separators, a postfix star, the   *)
(* two anchors, and the two groups SegmentStart and DirectoryTail.         *)
(***************************************************************************)
RegexMeta == {".", "^", "$", "*", "+", "?", "{", "}", "[", "]", "\\", "|", "(", ")"}
\* the characters re.escape puts a backslash before
EscapedChars == RegexMeta \cup {"-", "&", "~", "#", " ", "\t", "\n", "\r"}
SegmentStart == <<"(", "?", ":", "^", "|", "/", ")">>
DirectoryTail == <<"(", "?", ":", "/", ".", "*", ")", "?">>
NotSlash == <<"[", "^", "/", "]">>

\* re.escape(pattern)
RECURSIVE re_escape(_)
re_escape(s) ==
    IF s = <<>> THEN <<>>
    ELSE (IF s[1] \in EscapedChars THEN <<"\\", s[1]>> ELSE <<s[1]>>) \o re_escape(Tail(s))

\* the width in the source of the one-character atom at r[i]
AtomWidth(r, i) ==
    IF r[i] = "\\" THEN 2
    ELSE IF r[i] = "[" /\ StartsWithAt(r, i, NotSlash) THEN 4
    ELSE 1

\* whether r[i] starts an atom this interpreter knows; anything else is a
\* construct re.compile would have to parse (a set, a group, a repeat with
\* nothing before it, a trailing backslash) and is counted as re.error
IsAtom(r, i) ==
    \/ r[i] = "\\" /\ i < Len(r) /\ r[i + 1] \notin WordChars
    \/ r[i] = "[" /\ StartsWithAt(r, i, NotSlash)
    \/ r[i] = "."
    \/ r[i] \notin RegexMeta

\* re.compile(r) succeeds
RECURSIVE CompilesFrom(_, _)
CompilesFrom(r, i) ==
    IF i > Len(r) THEN TRUE
    ELSE IF r[i] = "(" /\ StartsWithAt(r, i, SegmentStart) THEN CompilesFrom(r, i + Len(SegmentStart))
    ELSE IF r[i] = "(" /\ StartsWithAt(r, i, DirectoryTail) THEN CompilesFrom(r, i + Len(DirectoryTail))
    ELSE IF r[i] \in {"^", "$"} THEN CompilesFrom(r, i + 1)
    ELSE IF IsAtom(r, i)
         THEN LET w == AtomWidth(r, i)
              IN IF i + w <= Len(r) /\ r[i + w] = "*"
                 THEN CompilesFrom(r, i + w + 1)
                 ELSE CompilesFrom(r, i + w)
    ELSE FALSE
re_compiles(r) == CompilesFrom(r, 1)

\* the atom at r[i] matches the character c
AtomMatches(r, i, c) ==
    IF r[i] = "\\" THEN c = r[i + 1]
    ELSE IF r[i] = "[" /\ StartsWithAt(r, i, NotSlash) THEN c # "/"
    ELSE IF r[i] = "." THEN c # "\n"
    ELSE c = r[i]

\* where the longest run of characters of s from position j on that the atom
\* at r[i] matches ends: the position after its last character
RunEnd(r, i, s, j) ==
    LET stops == {m \in j..Len(s) : ~AtomMatches(r, i, s[m])}
    IN IF stops = {} THEN Len(s) + 1 ELSE CHOOSE m \in stops : \A n \in stops : m <= n

\* r[i:] matches s from position j on (the match may stop anywhere)
RECURSIVE MatchAt(_, _, _, _)
MatchAt(r, i, s, j) ==
    IF i > Len(r) THEN TRUE
    ELSE IF r[i] = "(" /\ StartsWithAt(r, i, SegmentStart)
         THEN \/ j = 1 /\ MatchAt(r, i + Len(SegmentStart), s, j)
              \/ j <= Len(s) /\ s[j] = "/" /\ MatchAt(r, i + Len(SegmentStart), s, j + 1)
    ELSE IF r[i] = "(" /\ StartsWithAt(r, i, DirectoryTail)
         THEN \/ MatchAt(r, i + Len(DirectoryTail), s, j)
              \/ /\ j <= Len(s)
                 /\ s[j] = "/"
                 \* "/" and then any run of the "." at DirectoryTail[5]
                 /\ \E k \in (j + 1)..RunEnd(DirectoryTail, 5, s, j + 1) :
                        MatchAt(r, i + Len(DirectoryTail), s, k)
    ELSE IF r[i] = "^" THEN j = 1 /\ MatchAt(r, i + 1, s, j)
    ELSE IF r[i] = "$"
         THEN /\ j = Len(s) + 1 \/ (j = Len(s) /\ s[j] = "\n")
              /\ MatchAt(r, i + 1, s, j)
    ELSE LET w == AtomWidth(r, i)
         IN IF i + w <= Len(r) /\ r[i + w] = "*"
            THEN \E k \in j..RunEnd(r, i, s, j) : MatchAt(r, i + w + 1, s, k)
            ELSE /\ j <= Len(s)
                 /\ AtomMatches(r, i, s[j])
                 /\ MatchAt(r, i + w, s, j + 1)

\* re.search(r, s) finds a match
re_search(r, s) == \E j \in 1..(Len(s) + 1) : MatchAt(r, 1, s, j)

(***************************************************************************)
(* PatternCompiler: CodeFlattener._glob_to_regex                           *)
(***************************************************************************)
\* _glob_to_regex as it would be without re.escape
_glob_to_regex_unescaped(pattern) ==
    IF pattern = <<>> THEN <<>>
    ELSE LET p2 == replace(pattern, <<"*", "*">>, <<".", "*">>)
             p3 == replace(p2, <<"*">>, <<"[", "^", "/", "]", "*">>)
             p4 == replace(p3, <<"?">>, <<"[", "^", "/", "]">>)
             p5 == IF endswith(p4, <<"/">>)
                   THEN SubSeq(p4, 1, Len(p4) - 1) \o DirectoryTail
                   ELSE p4
             p6 == IF startswith(p5, <<"/">>)
                   THEN <<"^">> \o SubSeq(p5, 2, Len(p5))
                   ELSE SegmentStart \o p5
         IN p6 \o <<"$">>

_glob_to_regex(pattern) ==
    IF pattern = <<>> THEN <<>>
    ELSE LET p1 == replace(replace(re_escape(pattern), <<"\\", "*">>, <<"*">>), <<"\\", "?">>, <<"?">>)
             p2 == replace(p1, <<"*", "*">>, <<".", "*">>)
             p3 == replace(p2, <<"*">>, <<"[", "^", "/", "]", "*">>)
             p4 == replace(p3, <<"?">>, <<"[", "^", "/", "]">>)
             p5 == IF endswith(p4, <<"/">>)
                   THEN SubSeq(p4, 1, Len(p4) - 1) \o DirectoryTail
                   ELSE p4
             p6 == IF startswith(p5, <<"/">>)
                   THEN <<"^">> \o SubSeq(p5, 2, Len(p5))
                   ELSE SegmentStart \o p5
         IN p6 \o <<"$">>

(***************************************************************************)
(* Paths.  A path below the traversal root is a sequence of names.         *)
(***************************************************************************)
\* os.path.relpath(path, self.root_dir)
relpath(segs) == join(<<"/">>, segs)
\* os.path.basename(path)
basename(segs) == segs[Len(segs)]
\* os.path.dirname(path)
dirname(segs) == SubSeq(segs, 1, Len(segs) - 1)

\* os.path.splitext(path)[1]: from the last dot of the name, unless only dots precede it
splitext(name) ==
    LET dots == {i \in 1..Len(name) : name[i] = "."}
    IN IF dots = {} THEN <<>>
       ELSE LET d == CHOOSE i \in dots : \A k \in dots : k <= i
            IN IF \E k \in 1..(d - 1) : name[k] # "." THEN SubSeq(name, d, Len(name)) ELSE <<>>

(***************************************************************************)
(* FileTypeSpec and CommentGrammar                                         *)
(***************************************************************************)
SUPPORTED_EXTENSIONS ==
    <<".", "p", "y">> :> "python" @@ <<".", "j", "s">> :> "javascript" @@ <<".", "t", "s">> :> "typescript" @@
    <<".", "j", "s", "x">> :> "javascript" @@ <<".", "t", "s", "x">> :> "typescript" @@ <<".", "j", "a", "v", "a">> :> "java" @@
    <<".", "g", "o">> :> "go" @@ <<".", "r", "s">> :> "rust" @@ <<".", "c", "p", "p">> :> "cpp" @@ <<".", "h", "p", "p">> :> "cpp" @@
    <<".", "h">> :> "cpp" @@ <<".", "c">> :> "c" @@ <<".", "r", "b">> :> "ruby" @@ <<".", "p", "h", "p">> :> "php" @@
    <<".", "s", "h">> :> "bash" @@ <<".", "y", "a", "m", "l">> :> "yaml" @@ <<".", "y", "m", "l">> :> "yaml" @@
    <<".", "j", "s", "o", "n">> :> "json" @@ <<".", "m", "d">> :> "markdown" @@ <<".", "t", "x", "t">> :> "text"

\* a block pattern  open[\s\S]*?close  is kept as the pair <<open, close>>,
\* a single-line pattern  mark.*$  as its mark
SlashGrammar == [single_line |-> <<"/", "/">>, multi_line |-> << <<<<"/", "*">>, <<"*", "/">>>> >>]
NoGrammar == [single_line |-> <<>>, multi_line |-> <<>>]

_get_language_specific_patterns(extension) ==
    LET language == IF extension \in DOMAIN SUPPORTED_EXTENSIONS
                    THEN SUPPORTED_EXTENSIONS[extension] ELSE "text"
    IN CASE language = "python" ->
              [single_line |-> <<"#">>,
               multi_line |-> << <<<<"\"", "\"", "\"">>, <<"\"", "\"", "\"">>>>, <<<<"'", "'", "'">>, <<"'", "'", "'">>>> >>]
         [] language \in {"javascript", "typescript", "java", "go", "rust"} -> SlashGrammar
         [] language = "ruby" ->
              [single_line |-> <<"#">>, multi_line |-> << <<<<"=", "b", "e", "g", "i", "n">>, <<"=", "e", "n", "d">>>> >>]
         [] OTHER -> NoGrammar

(***************************************************************************)
(* ContentNormalizer: CodeFlattener._clean_code                            *)
(***************************************************************************)
\* the end of the physical line that holds position i: the next "\n", or the end
LineEnd(s, i) ==
    LET nl == {k \in i..Len(s) : s[k] = "\n"}
    IN IF nl = {} THEN Len(s) + 1 ELSE CHOOSE k \in nl : \A m \in nl : k <= m

\* re.sub(mark + '.*$', '', s, flags=re.MULTILINE)
RECURSIVE SubSingleLine(_, _, _)
SubSingleLine(s, i, mark) ==
    IF i > Len(s) THEN <<>>
    ELSE IF StartsWithAt(s, i, mark) THEN SubSingleLine(s, LineEnd(s, i), mark)
    ELSE <<s[i]>> \o SubSingleLine(s, i + 1, mark)

\* re.sub(open + '[\s\S]*?' + close, '', s): each block ends at its nearest terminator
RECURSIVE SubBlock(_, _, _, _)
SubBlock(s, i, open, close) ==
    IF i > Len(s) THEN <<>>
    ELSE LET ends == {k \in (i + Len(open))..Len(s) : StartsWithAt(s, k, close)}
         IN IF StartsWithAt(s, i, open) /\ ends # {}
            THEN SubBlock(s, (CHOOSE k \in ends : \A m \in ends : k <= m) + Len(close), open, close)
            ELSE <<s[i]>> \o SubBlock(s, i + 1, open, close)

RECURSIVE SubBlocks(_, _)
SubBlocks(s, blocks) ==
    IF blocks = <<>> THEN s
    ELSE SubBlocks(SubBlock(s, 1, blocks[1][1], blocks[1][2]), Tail(blocks))

\* the loop over code.splitlines(): non-blank lines, right-stripped
RECURSIVE KeepLines(_)
KeepLines(lines) ==
    IF lines = <<>> THEN <<>>
    ELSE (IF strip(lines[1]) # <<>> THEN <<rstrip(lines[1])>> ELSE <<>>) \o KeepLines(Tail(lines))

\* _clean_code(code, file_path)
_clean_code(text, name) ==
    LET patterns == _get_language_specific_patterns(lower(splitext(name)))
        c1 == IF patterns.single_line # <<>> THEN SubSingleLine(text, 1, patterns.single_line) ELSE text
        c2 == SubBlocks(c1, patterns.multi_line)
    IN join(<<"\n">>, KeepLines(splitlines(c2)))

(***************************************************************************)
(* TokenBudget: CodeFlattener._estimate_tokens and the truncation step     *)
(***************************************************************************)
\* len(re.findall(r'\b\w+\b', text)) + len(re.findall(r'[^\w\s]', text))
_estimate_tokens(text) ==
    LET words == {i \in 1..Len(text) : text[i] \in WordChars /\ (i = 1 \/ text[i - 1] \notin WordChars)}
        symbols == {i \in 1..Len(text) : text[i] \notin WordChars \cup SpaceChars}
    IN Cardinality(words) + Cardinality(symbols)

Marker == <<"\n", "#", " ", ".", ".", ".", " ", "(", "t", "r", "u", "n", "c", "a", "t", "e", "d", " ", "d", "u", "e", " ", "t", "o", " ", "t", "o", "k", "e", "n", " ", "l", "i", "m", "i", "t", ")", " ", ".", ".", ".">>

\* the truncation step as it would be with  tokens >= limit ; the properties
\* of the truncation step must tell it from Truncate
Truncate_at_limit(content, tokens, limit) ==
    IF tokens >= limit
    THEN SubSeq(content, 1, (Len(content) * limit) \div tokens) \o Marker
    ELSE content

\* lines 250-253 of _process_file: the proportional cut and the marker line
Truncate(content, tokens, limit) ==
    IF tokens > limit
    THEN SubSeq(content, 1, (Len(content) * limit) \div tokens) \o Marker
    ELSE content

(***************************************************************************)
(* IgnoreEngine: CodeFlattener._load_gitignore and _should_ignore          *)
(***************************************************************************)
default_patterns == <<
    <<"\\", ".", "g", "i", "t", "(", "?", ":", "/", ".", "*", ")", "?">>,
    <<"\\", ".", "i", "d", "e", "a", "(", "?", ":", "/", ".", "*", ")", "?">>,
    <<"_", "_", "p", "y", "c", "a", "c", "h", "e", "_", "_", "(", "?", ":", "/", ".", "*", ")", "?">>,
    <<".", "*", "\\", ".", "p", "y", "c">>,
    <<".", "*", "\\", ".", "l", "o", "g">>,
    <<"\\", ".", "e", "n", "v">>,
    <<".", "*", "v", "e", "n", "v", "(", "?", ":", "/", ".", "*", ")", "?">>,
    <<"n", "o", "d", "e", "_", "m", "o", "d", "u", "l", "e", "s", "(", "?", ":", "/", ".", "*", ")", "?">>,
    <<"d", "i", "s", "t", "(", "?", ":", "/", ".", "*", ")", "?">>,
    <<"b", "u", "i", "l", "d", "(", "?", ":", "/", ".", "*", ")", "?">> >>

GitignoreName == <<".", "g", "i", "t", "i", "g", "n", "o", "r", "e">>

\* the file record at a path of the tree
FileAt(tree, segs) == CHOOSE f \in tree : f.segs = segs
HasFile(tree, segs) == \E f \in tree : f.segs = segs

\* the loop over the lines of .gitignore: blank lines, comments and negations are skipped
RECURSIVE ParseGitignore(_)
ParseGitignore(lines) ==
    IF lines = <<>> THEN <<>>
    ELSE LET line == strip(lines[1])
         IN (IF line # <<>> /\ ~startswith(line, <<"#">>) /\ ~startswith(line, <<"!">>)
             THEN << _glob_to_regex(line) >>
             ELSE <<>>) \o ParseGitignore(Tail(lines))

\* [self._glob_to_regex(p) for p in self.ignore_patterns]
converted_ignores(patterns) == [i \in 1..Len(patterns) |-> _glob_to_regex(patterns[i])]

\* _load_gitignore: the new values of gitignore_patterns and all_ignore_patterns;
\* assembled is false when the early return at line 113 left both as they were
_load_gitignore(tree, given, loaded, current) ==
    IF ~HasFile(tree, <<GitignoreName>>)
    THEN [gitignore_patterns |-> loaded, all_ignore_patterns |-> current, assembled |-> FALSE]
    ELSE LET parsed == ParseGitignore(split(FileAt(tree, <<GitignoreName>>).content, "\n"))
         IN [gitignore_patterns |-> loaded \o parsed,
             all_ignore_patterns |-> default_patterns \o (loaded \o parsed) \o converted_ignores(given),
             assembled |-> TRUE]

\* the loop of _should_ignore over the rules: "yes", "no", or "raise" when
\* re.search is handed a rule that does not compile before any rule matched
RECURSIVE ShouldIgnoreFrom(_, _, _, _)
ShouldIgnoreFrom(patterns, i, relative_path, base) ==
    IF i > Len(patterns) THEN "no"
    ELSE IF ~re_compiles(patterns[i]) THEN "raise"
    ELSE IF re_search(patterns[i], relative_path) \/ re_search(patterns[i], base) THEN "yes"
    ELSE ShouldIgnoreFrom(patterns, i + 1, relative_path, base)

_should_ignore(patterns, segs) == ShouldIgnoreFrom(patterns, 1, relpath(segs), basename(segs))

\* the signs written before a directory (line 285) and before a file (line 291)
FolderSign == <<Eth, YDiaeresis, LeftQuote>>
PageSign == <<Eth, YDiaeresis, LeftQuote, LowQuote>>

\* os.path.getsize(file_path): the length of the text in UTF-8, in which the
\* two letters take two bytes each and the two quotation marks three
getsize(content) ==
    Len(content)
    + Cardinality({i \in 1..Len(content) : content[i] \in {Eth, YDiaeresis}})
    + 2 * Cardinality({i \in 1..Len(content) : content[i] \in {LeftQuote, LowQuote}})

(***************************************************************************)
(* TreeWalker: CodeFlattener._process_file                                 *)
(***************************************************************************)
NotRecorded == [recorded |-> FALSE]

\* the size test as it would be without a limit
TooLarge_never(file_size, limit) == FALSE

\* the size test of line 238
TooLarge(file_size, limit) == file_size > limit

\* the extension test of line 233
Supported(extension) == extension \in DOMAIN SUPPORTED_EXTENSIONS

\* _process_file as it would be if a failed read were recorded with an empty text
FileResult_records_failed(f, size_limit, tok_limit) ==
    LET extension == lower(splitext(basename(f.segs)))
        file_size == getsize(f.content)
        cleaned == _clean_code(f.content, basename(f.segs))
        tokens == _estimate_tokens(cleaned)
        final == Truncate(cleaned, tokens, tok_limit)
    IN IF ~Supported(extension) \/ f.fault = "stat" THEN NotRecorded
       ELSE IF TooLarge(file_size, size_limit) THEN NotRecorded
       ELSE IF f.fault = "read"
            THEN [recorded |-> TRUE,
                  relative_path |-> relpath(f.segs),
                  stats |-> [size |-> file_size, tokens |-> 0, lines |-> 0],
                  sections |-> << [file |-> relpath(f.segs), text |-> <<>>] >>]
       ELSE IF cleaned = <<>> THEN NotRecorded
       ELSE [recorded |-> TRUE,
             relative_path |-> relpath(f.segs),
             stats |-> [size |-> file_size, tokens |-> tokens, lines |-> Len(splitlines(final))],
             sections |-> << [file |-> relpath(f.segs), text |-> final] >>]

\* what _process_file does with the file f: nothing (an early return, or an
\* exception caught at line 268), or one FileStats entry and one section.
\* A section  ### File: <path> / fenced <text>  is kept as [file, text].
FileResult(f, size_limit, tok_limit) ==
    LET extension == lower(splitext(basename(f.segs)))
        file_size == getsize(f.content)
        cleaned == _clean_code(f.content, basename(f.segs))
        tokens == _estimate_tokens(cleaned)
        final == Truncate(cleaned, tokens, tok_limit)
    IN IF ~Supported(extension) THEN NotRecorded
       ELSE IF f.fault = "stat" THEN NotRecorded
       ELSE IF TooLarge(file_size, size_limit) THEN NotRecorded
       ELSE IF f.fault = "read" THEN NotRecorded
       ELSE IF cleaned = <<>> THEN NotRecorded
       ELSE [recorded |-> TRUE,
             relative_path |-> relpath(f.segs),
             stats |-> [size |-> file_size, tokens |-> tokens, lines |-> Len(splitlines(final))],
             sections |-> << [file |-> relpath(f.segs), text |-> final] >>]

(***************************************************************************)
(* ReportAssembler: _generate_project_structure, _generate_summary         *)
(***************************************************************************)
RECURSIVE Sum(_, _)
Sum(f, S) == IF S = {} THEN 0 ELSE LET x == CHOOSE y \in S : TRUE IN f[x] + Sum(f, S \ {x})

\* the value printed by  {total_size / 1024:.1f}, in tenths of a KB (ties to even)
KBTenths(total_size) ==
    LET q == (total_size * 10) \div 1024
        r == (total_size * 10) % 1024
    IN IF 2 * r > 1024 \/ (2 * r = 1024 /\ q % 2 = 1) THEN q + 1 ELSE q

\* the summary as it would be if every file counted as one line
_generate_summary_counts_files(stats) ==
    [total_files |-> Cardinality(DOMAIN stats),
     total_lines |-> Cardinality(DOMAIN stats),
     total_tokens |-> Sum([p \in DOMAIN stats |-> stats[p].tokens], DOMAIN stats),
     total_size |-> KBTenths(Sum([p \in DOMAIN stats |-> stats[p].size], DOMAIN stats))]

\* the four bullet lines of the summary
_generate_summary(stats) ==
    [total_files |-> Cardinality(DOMAIN stats),
     total_lines |-> Sum([p \in DOMAIN stats |-> stats[p].lines], DOMAIN stats),
     total_tokens |-> Sum([p \in DOMAIN stats |-> stats[p].tokens], DOMAIN stats),
     total_size |-> KBTenths(Sum([p \in DOMAIN stats |-> stats[p].size], DOMAIN stats))]

\* os.path.dirname and os.path.basename of a relative path given as a str
str_dirname(p) == LET parts == split(p, "/") IN join(<<"/">>, SubSeq(parts, 1, Len(parts) - 1))
str_basename(p) == LET parts == split(p, "/") IN parts[Len(parts)]

\* the loop of _generate_project_structure over the sorted keys; last_dir is
\* [none |-> TRUE] for None.  A line is kept as a record: a directory header
\* with its indent and name, or a file entry with indent, name, lines, tokens.
RECURSIVE StructureFrom(_, _, _, _)
StructureFrom(stats, keys, i, last_dir) ==
    IF i > Len(keys) THEN <<>>
    ELSE LET p == keys[i]
             parts == split(p, "/")
             current_dir == str_dirname(p)
             changed == last_dir.none \/ last_dir.dir # current_dir
             header == IF changed /\ current_dir # <<>>
                       THEN << [kind |-> "dir",
                                indent |-> Len(split(current_dir, "/")) - 1,
                                name |-> str_basename(current_dir)] >>
                       ELSE <<>>
             entry == [kind |-> "file", indent |-> Len(parts) - 1, name |-> str_basename(p),
                       lines |-> stats[p].lines, tokens |-> stats[p].tokens]
         IN header \o <<entry>>
              \o StructureFrom(stats, keys, i + 1,
                               IF changed THEN [none |-> FALSE, dir |-> current_dir] ELSE last_dir)

_generate_project_structure(stats) ==
    StructureFrom(stats, sorted(DOMAIN stats), 1, [none |-> TRUE, dir |-> <<>>])

\* the document save_output writes, section by section
Document(stats, contents) ==
    [summary |-> _generate_summary(stats),
     structure |-> _generate_project_structure(stats),
     source |-> contents]

\* str(n) for a natural number
RECURSIVE Decimal(_)
Decimal(n) == IF n < 10 THEN <<Digits[n + 1]>> ELSE Decimal(n \div 10) \o <<Digits[(n % 10) + 1]>>

\* '  ' * depth
RECURSIVE Indent(_)
Indent(depth) == IF depth = 0 THEN <<>> ELSE <<" ", " ">> \o Indent(depth - 1)

\* lines 286 and 291-293: the text of one line of the Project Structure
StructureLine(e) ==
    IF e.kind = "dir"
    THEN Indent(e.indent) \o FolderSign \o <<" ">> \o e.name \o <<"/">>
    ELSE Indent(e.indent) \o PageSign \o <<" ">> \o e.name \o <<" ", "(">> \o Decimal(e.lines)
             \o <<" ", "l", "i", "n", "e", "s", ",", " ", "~">> \o Decimal(e.tokens) \o <<" ", "t", "o", "k", "e", "n", "s", ")">>

\* lines 306-312: the text of the summary
SummaryText(s) ==
    <<"#", "#", " ", "P", "r", "o", "j", "e", "c", "t", " ", "S", "u", "m", "m", "a", "r", "y", "\n", "\n">>
    \o <<"-", " ", "T", "o", "t", "a", "l", " ", "f", "i", "l", "e", "s", " ", "p", "r", "o", "c", "e", "s", "s", "e", "d", ":", " ">> \o Decimal(s.total_files) \o <<"\n">>
    \o <<"-", " ", "T", "o", "t", "a", "l", " ", "l", "i", "n", "e", "s", " ", "o", "f", " ", "c", "o", "d", "e", ":", " ">> \o Decimal(s.total_lines) \o <<"\n">>
    \o <<"-", " ", "E", "s", "t", "i", "m", "a", "t", "e", "d", " ", "t", "o", "t", "a", "l", " ", "t", "o", "k", "e", "n", "s", ":", " ">> \o Decimal(s.total_tokens) \o <<"\n">>
    \o <<"-", " ", "T", "o", "t", "a", "l", " ", "s", "i", "z", "e", ":", " ">> \o Decimal(s.total_size \div 10) \o <<".">>
        \o Decimal(s.total_size % 10) \o <<" ", "K", "B", "\n">>

\* lines 261-266: the text of one section of flattened_content
SectionText(s) ==
    <<"#", "#", "#", " ", "F", "i", "l", "e", ":", " ">> \o s.file \o <<"\n">>
    \o <<GraveAccent, GraveAccent, GraveAccent>> \o <<"p", "y", "t", "h", "o", "n", "\n">>
    \o s.text \o <<"\n">>
    \o <<GraveAccent, GraveAccent, GraveAccent>> \o <<"\n">>

\* lines 350-367: the text save_output writes into the output file
Written(doc) ==
    <<"#", " ", "C", "o", "d", "e", "b", "a", "s", "e", " ", "F", "l", "a", "t", "t", "e", "n", "e", "d", " ", "f", "o", "r", " ", "A", "g", "e", "n", "t", "i", "c", " ", "W", "o", "r", "k", "f", "l", "o", "w", "\n", "\n">>
    \o <<"T", "h", "i", "s", " ", "f", "i", "l", "e", " ", "c", "o", "n", "t", "a", "i", "n", "s", " ", "t", "h", "e", " ", "p", "r", "o", "j", "e", "c", "t", "'", "s", " ", "s", "o", "u", "r", "c", "e", " ", "c", "o", "d", "e", ",", " ", "o", "p", "t", "i", "m", "i", "z", "e", "d", " ", "f", "o", "r", " ", "t", "o", "k", "e", "n", " ", "e", "f", "f", "i", "c", "i", "e", "n", "c", "y", ":", "\n">>
    \o <<"-", " ", "C", "o", "m", "m", "e", "n", "t", "s", " ", "a", "n", "d", " ", "d", "o", "c", "s", "t", "r", "i", "n", "g", "s", " ", "h", "a", "v", "e", " ", "b", "e", "e", "n", " ", "r", "e", "m", "o", "v", "e", "d", "\n">>
    \o <<"-", " ", "E", "m", "p", "t", "y", " ", "l", "i", "n", "e", "s", " ", "h", "a", "v", "e", " ", "b", "e", "e", "n", " ", "c", "l", "e", "a", "n", "e", "d", " ", "u", "p", "\n">>
    \o <<"-", " ", "L", "a", "r", "g", "e", " ", "f", "i", "l", "e", "s", " ", "h", "a", "v", "e", " ", "b", "e", "e", "n", " ", "t", "r", "u", "n", "c", "a", "t", "e", "d", "\n">>
    \o <<"-", " ", "O", "n", "l", "y", " ", "r", "e", "l", "e", "v", "a", "n", "t", " ", "f", "i", "l", "e", " ", "t", "y", "p", "e", "s", " ", "a", "r", "e", " ", "i", "n", "c", "l", "u", "d", "e", "d", "\n", "\n">>
    \o SummaryText(doc.summary)
    \o <<"\n", "#", "#", " ", "P", "r", "o", "j", "e", "c", "t", " ", "S", "t", "r", "u", "c", "t", "u", "r", "e", "\n", "\n">>
    \o join(<<"\n">>, [i \in 1..Len(doc.structure) |-> StructureLine(doc.structure[i])])
    \o <<"\n", "\n", "#", "#", " ", "S", "o", "u", "r", "c", "e", " ", "C", "o", "d", "e", "\n", "\n">>
    \o <<"E", "a", "c", "h", " ", "f", "i", "l", "e", " ", "i", "s", " ", "d", "e", "m", "a", "r", "c", "a", "t", "e", "d", " ", "b", "y", " ", "a", " ", "h", "e", "a", "d", "e", "r", " ", "s", "h", "o", "w", "i", "n", "g", " ", "i", "t", "s", " ", "r", "e", "l", "a", "t", "i", "v", "e", " ", "p", "a", "t", "h", ".", "\n", "\n">>
    \o <<"-", "-", "-", "-", "-", "-", "-", "-", "-", "-", "-", "-", "-", "-", "-", "-", "-", "-", "-", "-", "\n", "\n">>
    \o join(<<"\n">>, [i \in 1..Len(doc.source) |-> SectionText(doc.source[i])])

NoDocument == [summary |-> [total_files |-> 0, total_lines |-> 0, total_tokens |-> 0, total_size |-> 0],
               structure |-> <<>>,
               source |-> <<>>]

(***************************************************************************)
(* The source trees and configurations the model is run on.                *)
(***************************************************************************)
DefaultMaxFileSize == 1048576
DefaultMaxTokenLength == 100000

\* 'w w w ...': n words, each one token
Words(n) == [i \in 1..(2 * n - 1) |-> IF i % 2 = 1 THEN "w" ELSE " "]
\* a text of exactly n bytes
Bytes(n) == [i \in 1..n |-> IF i % 2 = 1 THEN "v" ELSE " "]

File(segs, content) == [segs |-> segs, content |-> content, fault |-> "none"]
\* a file whose size query ("stat") or whose read or decoding ("read") raises
FaultyFile(segs, content, fault) == [segs |-> segs, content |-> content, fault |-> fault]

Universe == {
    File(<<<<"x", ".", "p", "y">>>>, Words(SmallTokenLimit) \o <<" ", "#", " ", "c", "\n">>),
    File(<<<<"s", "r", "c">>, <<"m", ".", "j", "s">>>>, Words(SmallTokenLimit + 1) \o <<" ", "/", "/", " ", "c">>),
    File(<<<<"d", "e", "b", "u", "g", ".", "l", "o", "g">>>>, <<"l">>),
    File(<<<<"d", "e", "b", "u", "g", ".", "l", "o", "g", ".", "t", "x", "t">>>>, <<"h", "i">>),
    File(<<<<"n", "o", "d", "e", "_", "m", "o", "d", "u", "l", "e", "s">>, <<"i", ".", "j", "s">>>>, <<"i">>),
    File(<<<<"t", "e", "m", "p">>, <<"t", ".", "p", "y">>>>, <<"t">>),
    File(<<<<"d", "o", "c", "s">>, <<"r", ".", "m", "d">>>>, <<"#", " ", "T", "\n", "\n", "x">>),
    File(<<<<"d", "o", "c", "s">>, <<"a", "p", "i">>, <<"s", ".", "m", "d">>>>, <<"s">>),
    File(<<<<"c", ".", "p", "y">>>>, <<"#", " ", "o", "n", "l", "y", "\n", "\n">>),
    File(<<<<"B", ".", "P", "Y">>>>, <<"b">>),
    File(<<<<"b", "i", "g", ".", "p", "y">>>>, Bytes(SmallFileLimit + 1)),
    File(<<<<"e", "q", ".", "p", "y">>>>, Bytes(SmallFileLimit)),
    File(<<<<"w", "i", "d", "e", ".", "t", "x", "t">>>>, Bytes(5 * SmallFileLimit)),
    File(<<<<"[", "x", "]", ".", "p", "y">>>>, <<"k">>),
    FaultyFile(<<<<"b", "a", "d", ".", "p", "y">>>>, <<"e">>, "read"),
    FaultyFile(<<<<"g", "o", "n", "e", ".", "p", "y">>>>, <<"g">>, "stat") }

\* the exclusion files tried at the root
Gitignores == {
    File(<<GitignoreName>>, <<"\n", " ", " ", " ", " ", "*", ".", "l", "o", "g", "\n", " ", " ", " ", " ", "t", "e", "m", "p", "/", "\n", " ", " ", " ", " ">>),
    File(<<GitignoreName>>, <<"[", "i", "n", "v", "a", "l", "i", "d", "-", "r", "e", "g", "e", "x", "\n", "#", " ", "c", "\n", "\n", "!", "x", ".", "p", "y", "\n">>) }

\* output_file when it does not lie below root_dir
OutsideRoot == <<>>

\* the caller-supplied rule lists tried
CallerPatterns == { <<>>, <<<<"d", "o", "c", "s">>, <<"[", "x", "]", ".", "p", "y">>>> }

\* the settings of the two class variables tried
Limits == { [size |-> SmallFileLimit, tokens |-> SmallTokenLimit],
            [size |-> DefaultMaxFileSize, tokens |-> DefaultMaxTokenLength] }

Trees == {T \cup G : T \in SubsetsUpTo(Universe, MaxFiles),
                     G \in {{}} \cup {{g} : g \in Gitignores}}

(***************************************************************************)
(* The directory listing os.walk yields.                                   *)
(***************************************************************************)
IsPrefix(d, segs) == Len(d) <= Len(segs) /\ SubSeq(segs, 1, Len(d)) = d
\* the names of the files directly in directory d
FileNamesIn(tree, d) == {basename(f.segs) : f \in {g \in tree : dirname(g.segs) = d}}
\* the names of the directories directly in directory d
DirNamesIn(tree, d) ==
    {f.segs[Len(d) + 1] : f \in {g \in tree : IsPrefix(d, g.segs) /\ Len(g.segs) > Len(d) + 1}}
\* os.path.join(dirpath, name) for each name of a sorted list
Joined(d, names) == [i \in 1..Len(names) |-> Append(d, names[i])]

\* line 325 as it would be without the filter: every subdirectory stays
Prune_keeps_all(patterns, dirpath, dirnames) == dirnames

\* line 325: the subdirectories that stay in dirnames
Prune(patterns, dirpath, dirnames) ==
    {d \in dirnames : _should_ignore(patterns, Append(dirpath, d)) # "yes"}

(***************************************************************************)
(* flatten(), one step at a time.                                          *)
(***************************************************************************)
\* what is kept of a call of flatten() for the comparison with the next one
NoRun == [none |-> TRUE]
RunResult(stats, document, rules) ==
    [none |-> FALSE, file_stats |-> stats, output |-> document, all_ignore_patterns |-> rules]

\* lines 318-321: the caller calls flatten(), for the first time or again on
\* the same object: _load_gitignore, then the two collections are emptied
StartFlatten ==
    /\ pc \in {"new", "done"}
    /\ calls > 0
    /\ calls' = calls - 1
    /\ previous' = IF pc = "done"
                   THEN RunResult(file_stats, output, all_ignore_patterns)
                   ELSE previous
    /\ LET loaded == _load_gitignore(fs, ignore_patterns, gitignore_patterns, all_ignore_patterns)
       IN /\ gitignore_patterns' = loaded.gitignore_patterns
          /\ all_ignore_patterns' = loaded.all_ignore_patterns
    /\ flattened_content' = <<>>
    /\ file_stats' = <<>>
    /\ stack' = << <<>> >>
    /\ filenames' = <<>>
    /\ pc' = "walk"
    /\ visited' = {}
    /\ UNCHANGED <<fs, ignore_patterns, max_file_size, max_token_length, output, output_file>>
    /\ UNCHANGED textVars
    /\ UNCHANGED ruleVars

\* lines 323-328: os.walk yields the next directory; its subdirectories are
\* pruned and sorted, its files sorted.  A rule that does not compile makes
\* _should_ignore raise, and flatten() ends with that exception.
VisitDir ==
    /\ pc = "walk"
    /\ filenames = <<>>
    /\ stack # <<>>
    /\ LET dirpath == Head(stack)
           dirnames == DirNamesIn(fs, dirpath)
       IN IF \E d \in dirnames : _should_ignore(all_ignore_patterns, Append(dirpath, d)) = "raise"
          THEN /\ pc' = "raised"
               /\ UNCHANGED <<stack, filenames>>
          ELSE /\ stack' = Joined(dirpath, sorted(Prune(all_ignore_patterns, dirpath, dirnames)))
                             \o Tail(stack)
               /\ filenames' = Joined(dirpath, sorted(FileNamesIn(fs, dirpath)))
               /\ pc' = "walk"
    /\ UNCHANGED <<fs, ignore_patterns, max_file_size, max_token_length, gitignore_patterns,
                   all_ignore_patterns, flattened_content, file_stats, visited, output,
                   output_file, calls, previous>>
    /\ UNCHANGED textVars
    /\ UNCHANGED ruleVars

\* lines 328-331: the next file of the directory, and _process_file on it
\* when no rule excludes it
ProcessFile ==
    /\ pc = "walk"
    /\ filenames # <<>>
    /\ LET path == Head(filenames)
           verdict == _should_ignore(all_ignore_patterns, path)
           result == FileResult(FileAt(fs, path), max_file_size, max_token_length)
       IN IF verdict = "raise"
          THEN /\ pc' = "raised"
               /\ UNCHANGED <<filenames, visited, file_stats, flattened_content>>
          ELSE /\ filenames' = Tail(filenames)
               /\ pc' = "walk"
               /\ IF verdict = "yes"
                  THEN UNCHANGED <<visited, file_stats, flattened_content>>
                  ELSE /\ visited' = visited \cup {path}
                       /\ IF result.recorded
                          THEN /\ file_stats' = (result.relative_path :> result.stats) @@ file_stats
                               /\ flattened_content' = flattened_content \o result.sections
                          ELSE UNCHANGED <<file_stats, flattened_content>>
    /\ UNCHANGED <<fs, ignore_patterns, max_file_size, max_token_length, gitignore_patterns,
                   all_ignore_patterns, stack, output, output_file, calls, previous>>
    /\ UNCHANGED textVars
    /\ UNCHANGED ruleVars

\* line 349: open(self.output_file, 'w') creates the file or replaces its
\* content; a file outside the root is not part of the tree
WriteFile(tree, segs, content) ==
    IF segs = OutsideRoot THEN tree
    ELSE {f \in tree : f.segs # segs} \cup {File(segs, content)}

\* line 333: the walk is over and save_output writes the document
SaveOutput ==
    /\ pc = "walk"
    /\ filenames = <<>>
    /\ stack = <<>>
    /\ output' = Document(file_stats, flattened_content)
    /\ fs' = WriteFile(fs, output_file, Written(Document(file_stats, flattened_content)))
    /\ pc' = "done"
    /\ UNCHANGED <<ignore_patterns, max_file_size, max_token_length, gitignore_patterns,
                   all_ignore_patterns, flattened_content, file_stats, stack, filenames, visited,
                   output_file, calls, previous>>
    /\ UNCHANGED textVars
    /\ UNCHANGED ruleVars

TextIdle ==
    /\ code = <<>>
    /\ file_path = <<>>
    /\ token_limit = 0
    /\ cleaned_content = <<>>
    /\ cleaned_twice = <<>>
    /\ body = <<>>
    /\ tpc = "idle"

RuleIdle ==
    /\ rule = <<>>
    /\ asked_path = <<>>
    /\ compiled = <<>>
    /\ matched = FALSE
    /\ ignored = "no"
    /\ rpc = "idle"

\* the state after CodeFlattener(root_dir, output_file, ignore_patterns)
Init ==
    /\ fs \in Trees
    /\ ignore_patterns \in CallerPatterns
    /\ \E l \in Limits : max_file_size = l.size /\ max_token_length = l.tokens
    /\ gitignore_patterns = <<>>
    /\ all_ignore_patterns = <<>>
    /\ flattened_content = <<>>
    /\ file_stats = <<>>
    /\ pc = "new"
    /\ stack = <<>>
    /\ filenames = <<>>
    /\ visited = {}
    /\ output = NoDocument
    /\ output_file = OutsideRoot
    /\ calls = 1
    /\ previous = NoRun
    /\ TextIdle
    /\ RuleIdle

Next == StartFlatten \/ VisitDir \/ ProcessFile \/ SaveOutput

Spec == Init /\ [][Next]_vars

(***************************************************************************)
(* The text pipeline of _process_file on one text: _clean_code, then       *)
(* _estimate_tokens and the truncation step.                               *)
(***************************************************************************)
MaxCommentLen == 4

\* the texts the pipeline is run on, each with the name of its file and the
\* value of max_token_length
TextInit ==
    /\ \* quotes only, as Python source
       \/ /\ code \in SeqsUpTo({"\"", "'"}, MaxQuoteLen)
          /\ file_path = <<"q", ".", "p", "y">>
          /\ token_limit = DefaultMaxTokenLength
       \* words, symbols, blanks and line breaks, as plain text, under small limits
       \/ /\ code \in SeqsUpTo({".", "a", " ", "\n"}, MaxTextLen)
          /\ file_path = <<"t", ".", "t", "x", "t">>
          /\ token_limit \in 1..SmallTokenLimit
       \* comment delimiters, in languages with a grammar
       \/ /\ code \in SeqsUpTo({"#", "/", "*", "a", "\n"}, MaxCommentLen)
          /\ file_path \in {<<"c", ".", "p", "y">>, <<"c", ".", "J", "S">>, <<"c", ".", "r", "b">>}
          /\ token_limit = SmallTokenLimit
       \* texts that hold the marker line themselves
       \/ /\ code \in {Tail(Marker), <<"a", " ", "b">> \o Marker, <<"a", " ", "b">> \o Marker \o <<"\n", "c">>}
          /\ file_path \in {<<"n", ".", "t", "x", "t">>, <<"n", ".", "p", "y">>}
          /\ token_limit \in {SmallTokenLimit, DefaultMaxTokenLength}
    /\ cleaned_content = <<>>
    /\ cleaned_twice = <<>>
    /\ body = <<>>
    /\ tpc = "raw"
    /\ fs = {}
    /\ ignore_patterns = <<>>
    /\ max_file_size = DefaultMaxFileSize
    /\ max_token_length = DefaultMaxTokenLength
    /\ gitignore_patterns = <<>>
    /\ all_ignore_patterns = <<>>
    /\ flattened_content = <<>>
    /\ file_stats = <<>>
    /\ pc = "idle"
    /\ stack = <<>>
    /\ filenames = <<>>
    /\ visited = {}
    /\ output = NoDocument
    /\ output_file = OutsideRoot
    /\ calls = 0
    /\ previous = NoRun
    /\ RuleIdle

\* line 245
Clean ==
    /\ tpc = "raw"
    /\ cleaned_content' = _clean_code(code, file_path)
    /\ tpc' = "cleaned"
    /\ UNCHANGED <<code, file_path, token_limit, cleaned_twice, body>>
    /\ UNCHANGED flattenVars
    /\ UNCHANGED ruleVars

\* _clean_code applied to its own output
CleanAgain ==
    /\ tpc = "cleaned"
    /\ cleaned_twice' = _clean_code(cleaned_content, file_path)
    /\ tpc' = "recleaned"
    /\ UNCHANGED <<code, file_path, token_limit, cleaned_content, body>>
    /\ UNCHANGED flattenVars
    /\ UNCHANGED ruleVars

\* lines 246-253: a non-empty normalized text is measured and, over the limit, cut
Budget ==
    /\ tpc = "recleaned"
    /\ cleaned_content # <<>>
    /\ body' = Truncate(cleaned_content, _estimate_tokens(cleaned_content), token_limit)
    /\ tpc' = "budgeted"
    /\ UNCHANGED <<code, file_path, token_limit, cleaned_content, cleaned_twice>>
    /\ UNCHANGED flattenVars
    /\ UNCHANGED ruleVars

TextNext == Clean \/ CleanAgain \/ Budget

TextSpec == TextInit /\ [][TextNext]_vars


(***************************************************************************)
(* One rule and one path: _glob_to_regex on the rule, then the question    *)
(* _should_ignore asks of the path.                                        *)
(***************************************************************************)
MaxRuleLen == 4
MaxDepth == 2

\* the positions at which a match of r[i:] that starts at position j of s
\* can end (the position after its last character)
RECURSIVE MatchEnds(_, _, _, _)
MatchEnds(r, i, s, j) ==
    IF i > Len(r) THEN {j}
    ELSE IF r[i] = "(" /\ StartsWithAt(r, i, SegmentStart)
         THEN (IF j = 1 THEN MatchEnds(r, i + Len(SegmentStart), s, j) ELSE {})
              \cup (IF j <= Len(s) /\ s[j] = "/"
                    THEN MatchEnds(r, i + Len(SegmentStart), s, j + 1)
                    ELSE {})
    ELSE IF r[i] = "(" /\ StartsWithAt(r, i, DirectoryTail)
         THEN MatchEnds(r, i + Len(DirectoryTail), s, j)
              \cup (IF j <= Len(s) /\ s[j] = "/"
                    THEN UNION {MatchEnds(r, i + Len(DirectoryTail), s, k) :
                                   k \in (j + 1)..RunEnd(DirectoryTail, 5, s, j + 1)}
                    ELSE {})
    ELSE IF r[i] = "^" THEN (IF j = 1 THEN MatchEnds(r, i + 1, s, j) ELSE {})
    ELSE IF r[i] = "$"
         THEN IF j = Len(s) + 1 \/ (j = Len(s) /\ s[j] = "\n")
              THEN MatchEnds(r, i + 1, s, j)
              ELSE {}
    ELSE LET w == AtomWidth(r, i)
         IN IF i + w <= Len(r) /\ r[i + w] = "*"
            THEN UNION {MatchEnds(r, i + w + 1, s, k) : k \in j..RunEnd(r, i, s, j)}
            ELSE IF j <= Len(s) /\ AtomMatches(r, i, s[j])
                 THEN MatchEnds(r, i + w, s, j + 1)
                 ELSE {}

\* the leftmost position of s at which r matches: the start of the match
\* re.search(r, s) returns
search_start(r, s) ==
    CHOOSE j \in 1..(Len(s) + 1) :
        /\ MatchAt(r, 1, s, j)
        /\ \A k \in 1..(j - 1) : ~MatchAt(r, 1, s, k)

\* where the match re.search(r, s) returns can end
search_ends(r, s) == MatchEnds(r, 1, s, search_start(r, s))

FlattenIdle ==
    /\ fs = {}
    /\ ignore_patterns = <<>>
    /\ max_file_size = DefaultMaxFileSize
    /\ max_token_length = DefaultMaxTokenLength
    /\ gitignore_patterns = <<>>
    /\ all_ignore_patterns = <<>>
    /\ flattened_content = <<>>
    /\ file_stats = <<>>
    /\ pc = "idle"
    /\ stack = <<>>
    /\ filenames = <<>>
    /\ visited = {}
    /\ output = NoDocument
    /\ output_file = OutsideRoot
    /\ calls = 0
    /\ previous = NoRun

\* the rules and the paths tried
RuleInit ==
    /\ \/ rule \in SeqsUpTo({"a", "/", "*", "?"}, MaxRuleLen)
       \/ rule \in {<<"s", "r", "c", "/", "*", "*", "/", "t", "e", "s", "t", ".", "p", "y">>, <<"a", "*", "*", "b">>, <<"/", "f", "o", "o">>, <<"f", "o", "o">>, <<"*", ".", "l", "o", "g">>, <<"t", "e", "m", "p", "/">>}
    /\ \/ asked_path \in SeqsUpTo({<<"a">>, <<"a", "a">>, <<"a", "b">>}, MaxDepth) \ {<<>>}
       \/ asked_path \in {<<<<"s", "r", "c">>, <<"a">>, <<"t", "e", "s", "t", ".", "p", "y">>>>, <<<<"s", "r", "c">>, <<"a">>, <<"b">>, <<"t", "e", "s", "t", ".", "p", "y">>>>,
                    <<<<"f", "o", "o">>>>, <<<<"s", "u", "b">>, <<"f", "o", "o">>>>, <<<<"t", "e", "m", "p">>, <<"d", "e", "b", "u", "g", ".", "l", "o", "g">>>>}
    /\ compiled = <<>>
    /\ matched = FALSE
    /\ ignored = "no"
    /\ rpc = "rule"
    /\ FlattenIdle
    /\ TextIdle

\* line 139: the rule is converted
Convert ==
    /\ rpc = "rule"
    /\ compiled' = _glob_to_regex(rule)
    /\ rpc' = "compiled"
    /\ UNCHANGED <<rule, asked_path, matched, ignored>>
    /\ UNCHANGED flattenVars
    /\ UNCHANGED textVars

\* lines 148-156: the path is asked about, with the converted rule as the
\* only element of all_ignore_patterns
Ask ==
    /\ rpc = "compiled"
    /\ matched' = re_search(compiled, relpath(asked_path))
    /\ ignored' = _should_ignore(<<compiled>>, asked_path)
    /\ rpc' = "asked"
    /\ UNCHANGED <<rule, asked_path, compiled>>
    /\ UNCHANGED flattenVars
    /\ UNCHANGED textVars

RuleNext == Convert \/ Ask

RuleSpec == RuleInit /\ [][RuleNext]_vars

(***************************************************************************)
(* flatten() on trees of small files that lie in a directory, in its       *)
(* subdirectories and next to it, without rules.                           *)
(***************************************************************************)
MaxNested == 3

NestedUniverse == {
    File(<<<<"a", ".", "p", "y">>>>, <<"v">>),
    File(<<<<"a">>, <<"a", ".", "p", "y">>>>, <<"v">>),
    File(<<<<"a">>, <<"c", ".", "p", "y">>>>, <<"v", "\n", "v">>),
    File(<<<<"a">>, <<"b">>, <<"x", ".", "p", "y">>>>, <<"v">>),
    File(<<<<"a">>, <<"b">>, <<"c">>, <<"z", ".", "p", "y">>>>, <<"v">>),
    File(<<<<"b">>, <<"y", ".", "p", "y">>>>, <<"v", " ", "v">>),
    File(<<<<"z", ".", "p", "y">>>>, <<"v">>) }

NestedInit ==
    /\ fs \in SubsetsUpTo(NestedUniverse, MaxNested)
    /\ ignore_patterns = <<>>
    /\ max_file_size = DefaultMaxFileSize
    /\ max_token_length = DefaultMaxTokenLength
    /\ gitignore_patterns = <<>>
    /\ all_ignore_patterns = <<>>
    /\ flattened_content = <<>>
    /\ file_stats = <<>>
    /\ pc = "new"
    /\ stack = <<>>
    /\ filenames = <<>>
    /\ visited = {}
    /\ output = NoDocument
    /\ output_file = OutsideRoot
    /\ calls = 1
    /\ previous = NoRun
    /\ TextIdle
    /\ RuleIdle

NestedSpec == NestedInit /\ [][Next]_vars

(***************************************************************************)
(* flatten() called again on the same object, the tree left as the call    *)
(* before left it; the output file lies outside the root or below it.      *)
(***************************************************************************)
MaxCalls == 2

RepeatUniverse == {
    File(<<<<"x", ".", "p", "y">>>>, <<"v", " ", "=", " ", "1">>),
    File(<<<<"s", "r", "c">>, <<"m", ".", "j", "s">>>>, Words(SmallTokenLimit + 1) \o <<" ", "/", "/", " ", "c">>),
    File(<<<<"n", "o", "t", "e", "s", ".", "m", "d">>>>, <<"#", " ", "T", "\n", "\n", "x">>),
    File(<<GitignoreName>>, <<"*", ".", "l", "o", "g", "\n">>),
    File(<<GitignoreName>>, <<"*", ".", "m", "d", "\n">>) }

\* where the caller has the document written: outside the root, or into
\* the root under a name with a supported extension (output.md) or without
OutputFiles == {OutsideRoot, <<<<"o", "u", "t", "p", "u", "t", ".", "m", "d">>>>, <<<<"o", "u", "t", "p", "u", "t", ".", "o", "u", "t">>>>}

RepeatInit ==
    /\ fs \in {T \in SubsetsUpTo(RepeatUniverse, MaxFiles) :
                  \A f \in T, g \in T : f.segs = g.segs => f = g}
    /\ ignore_patterns = <<>>
    /\ \E l \in Limits : max_file_size = l.size /\ max_token_length = l.tokens
    /\ gitignore_patterns = <<>>
    /\ all_ignore_patterns = <<>>
    /\ flattened_content = <<>>
    /\ file_stats = <<>>
    /\ pc = "new"
    /\ stack = <<>>
    /\ filenames = <<>>
    /\ visited = {}
    /\ output = NoDocument
    /\ output_file \in OutputFiles
    /\ calls = MaxCalls
    /\ previous = NoRun
    /\ TextIdle
    /\ RuleIdle

RepeatSpec == RepeatInit /\ [][Next]_vars
(***************************************************************************)
(* Properties of flatten() and of the document it writes.                  *)
(***************************************************************************)
\* the relative paths that have a section in a list of sections
SectionFiles(sections) == {sections[i].file : i \in 1..Len(sections)}
\* the file entries of a Project Structure, in order
FileEntries(structure) == SelectSeq(structure, LAMBDA e : e.kind = "file")
\* the directories above a path
Ancestors(segs) == {SubSeq(segs, 1, k) : k \in 1..(Len(segs) - 1)}
\* some directory above the path is excluded by the rules in force
UnderIgnoredDir(segs) ==
    \E d \in Ancestors(segs) : _should_ignore(all_ignore_patterns, d) = "yes"
\* the file of the tree with a given relative path
FileOf(p) == FileAt(fs, split(p, "/"))
\* processing the file raises inside _process_file
Fails(f) ==
    /\ Supported(lower(splitext(basename(f.segs))))
    /\ \/ f.fault = "stat"
       \/ f.fault = "read" /\ Len(f.content) <= max_file_size

\* the rule texts of the run: the caller-supplied ones and the lines of .gitignore
RuleTexts ==
    Range(ignore_patterns) \cup
    (IF HasFile(fs, <<GitignoreName>>)
     THEN {strip(l) : l \in Range(split(FileAt(fs, <<GitignoreName>>).content, "\n"))}
     ELSE {})
\* a rule text without wildcard or slash
PlainRule(g) == g # <<>> /\ g[1] \notin {"#", "!"} /\ \A i \in 1..Len(g) : g[i] \notin {"*", "?", "/"}
\* a rule text that holds a character special to regular expressions
HasMeta(g) == \E i \in 1..Len(g) : g[i] \in {"[", "]", "(", ")", "+", "{", "}", "|", "\\"}

\* C1: in the written document the files with a section under Source Code
\* and the file entries of Project Structure are the same files, one entry
\* and one section each, and the four totals of the summary are the count
\* and the sums of lines, tokens and raw bytes over exactly those files; a
\* run that records nothing writes zero totals and two empty sections.
C1_StructureSourceSummaryAgree ==
    pc = "done" =>
        LET src == output.source
            paths == SectionFiles(src)
            keys == sorted(paths)
            entries == FileEntries(output.structure)
            TextOf(p) == src[CHOOSE i \in 1..Len(src) : src[i].file = p].text
        IN /\ Cardinality(paths) = Len(src)
           /\ Len(entries) = Len(src)
           /\ \A i \in 1..Len(entries) :
                 /\ entries[i].name = str_basename(keys[i])
                 /\ entries[i].indent = Len(split(keys[i], "/")) - 1
                 /\ entries[i].lines = Len(splitlines(TextOf(keys[i])))
           /\ output.summary.total_files = Len(src)
           /\ output.summary.total_lines =
                 Sum([p \in paths |-> Len(splitlines(TextOf(p)))], paths)
           /\ output.summary.total_tokens =
                 Sum([i \in 1..Len(entries) |-> entries[i].tokens], 1..Len(entries))
           /\ output.summary.total_size =
                 KBTenths(Sum([p \in paths |-> Len(FileOf(p).content)], paths))
           /\ src = <<>> =>
                 /\ output.structure = <<>>
                 /\ output.summary = [total_files |-> 0, total_lines |-> 0,
                                      total_tokens |-> 0, total_size |-> 0]

\* two files were recorded, one of them in a subdirectory and one of more
\* than one line, and a size that does not round to zero was summed
C1_Witness ==
    /\ pc = "done"
    /\ Len(output.source) = 2
    /\ \E i \in 1..Len(output.structure) : output.structure[i].kind = "dir"
    /\ output.summary.total_lines > 2
    /\ output.summary.total_size > 0

\* C2: a file below a directory that the rules in force exclude is never
\* passed to _process_file, has no entry in file_stats and no section, and
\* the walk never holds it or a directory of that subtree.
C2_PrunedSubtreeNeverVisited ==
    pc \in {"walk", "done"} =>
        \A f \in fs :
            UnderIgnoredDir(f.segs) =>
                /\ f.segs \notin visited
                /\ f.segs \notin Range(filenames)
                /\ \A i \in 1..Len(stack) :
                       stack[i] \in Ancestors(f.segs) =>
                           /\ _should_ignore(all_ignore_patterns, stack[i]) # "yes"
                           /\ ~UnderIgnoredDir(stack[i])
                /\ relpath(f.segs) \notin DOMAIN file_stats
                /\ relpath(f.segs) \notin SectionFiles(flattened_content)

\* the walk has ended, and a file that no rule matches, of a supported type,
\* was left out because a directory above it is excluded
C2_Witness ==
    /\ pc = "done"
    /\ \E f \in fs :
          /\ UnderIgnoredDir(f.segs)
          /\ _should_ignore(all_ignore_patterns, f.segs) = "no"
          /\ FileResult(f, max_file_size, max_token_length).recorded
          /\ f.segs \notin visited
          /\ relpath(f.segs) \notin DOMAIN file_stats

\* C3: once _load_gitignore has run, whether or not a .gitignore exists, the
\* built-in default rules and the converted caller-supplied rules are in
\* all_ignore_patterns, and a file below node_modules is never processed.
C3_DefaultsAndCallerRulesInForce ==
    pc \in {"walk", "done"} =>
        /\ \A i \in 1..Len(default_patterns) :
              default_patterns[i] \in Range(all_ignore_patterns)
        /\ \A i \in 1..Len(ignore_patterns) :
              _glob_to_regex(ignore_patterns[i]) \in Range(all_ignore_patterns)
        /\ \A f \in fs : f.segs[1] = <<"n", "o", "d", "e", "_", "m", "o", "d", "u", "l", "e", "s">> => f.segs \notin visited

\* C4: with a .gitignore at the root that holds the rule *.log, the root
\* file debug.log is excluded, and the root file debug.log.txt, whose name
\* only starts with an excluded name, is processed and recorded.
C4_PrefixOfNameDoesNotExclude ==
    (pc = "done" /\ <<"*", ".", "l", "o", "g">> \in RuleTexts /\ HasFile(fs, <<GitignoreName>>)) =>
        \A f \in fs :
            /\ relpath(f.segs) = <<"d", "e", "b", "u", "g", ".", "l", "o", "g">> =>
                  /\ f.segs \notin visited
                  /\ relpath(f.segs) \notin DOMAIN file_stats
            /\ relpath(f.segs) = <<"d", "e", "b", "u", "g", ".", "l", "o", "g", ".", "t", "x", "t">> =>
                  /\ f.segs \in visited
                  /\ relpath(f.segs) \in DOMAIN file_stats

\* C8: at every moment, a file with an entry in file_stats or a section has
\* a supported extension (compared in lower case), a size of at most
\* max_file_size and a non-empty normalized text, and its section is not
\* empty; a file of exactly max_file_size that is processed is recorded.
C8_OnlyEligibleFilesRecorded ==
    /\ DOMAIN file_stats \cup SectionFiles(flattened_content) \subseteq {relpath(f.segs) : f \in fs}
    /\ \A f \in fs :
          relpath(f.segs) \in DOMAIN file_stats \cup SectionFiles(flattened_content) =>
              /\ lower(splitext(basename(f.segs))) \in DOMAIN SUPPORTED_EXTENSIONS
              /\ Len(f.content) <= max_file_size
              /\ _clean_code(f.content, basename(f.segs)) # <<>>
    /\ \A i \in 1..Len(flattened_content) : flattened_content[i].text # <<>>
    /\ pc = "done" =>
          \A f \in fs :
              (/\ f.segs \in visited
               /\ f.fault = "none"
               /\ Len(f.content) = max_file_size
               /\ lower(splitext(basename(f.segs))) \in DOMAIN SUPPORTED_EXTENSIONS
               /\ _clean_code(f.content, basename(f.segs)) # <<>>)
              => relpath(f.segs) \in DOMAIN file_stats

\* a file of exactly the size limit was recorded, and a file with an
\* upper-case extension, an oversized file or an unsupported one was
\* processed next to it
C8_Witness ==
    /\ pc = "done"
    /\ \E f \in fs : Len(f.content) = max_file_size /\ relpath(f.segs) \in DOMAIN file_stats
    /\ \E f \in fs :
          /\ f.segs \in visited
          /\ \/ Len(f.content) > max_file_size
             \/ splitext(basename(f.segs)) # lower(splitext(basename(f.segs)))
             \/ ~Supported(lower(splitext(basename(f.segs))))

\* the step of flatten() that processes a file whose size query, read or
\* decoding raises: nothing is recorded, what was recorded stays, the walk goes on
C9_FailingStep ==
    (/\ pc = "walk"
     /\ filenames # <<>>
     /\ Fails(FileAt(fs, Head(filenames)))
     /\ _should_ignore(all_ignore_patterns, Head(filenames)) = "no")
    => /\ file_stats' = file_stats
       /\ flattened_content' = flattened_content
       /\ filenames' = Tail(filenames)
       /\ pc' = "walk"

\* C9: a failure while processing one file adds no entry for that file,
\* leaves the entries of the other files unchanged and does not end
\* flatten(): every other file that no rule excludes is still processed and
\* the document is written.
C9_FailureSkipsOnlyThatFile ==
    /\ [][C9_FailingStep]_vars
    /\ [](pc # "raised")
    /\ [](pc = "done" =>
            \A f \in fs :
                /\ Fails(f) => relpath(f.segs) \notin DOMAIN file_stats
                                 \cup SectionFiles(output.source)
                /\ (_should_ignore(all_ignore_patterns, f.segs) = "no"
                    /\ ~UnderIgnoredDir(f.segs)) => f.segs \in visited)

\* the document was written after a file failed, and another file is recorded in it
C9_Witness ==
    /\ pc = "done"
    /\ \E f \in fs : Fails(f) /\ f.segs \in visited
    /\ SectionFiles(output.source) # {}

C5_CleanIsIdempotent ==
    tpc \in {"recleaned", "budgeted"} => cleaned_twice = cleaned_content

\* C6: a body that was truncated estimates to at most the limit plus the
\* estimate of the marker line.
C6_TruncatedBodyWithinBudget ==
    (tpc = "budgeted" /\ _estimate_tokens(cleaned_content) > token_limit) =>
        _estimate_tokens(body) <= token_limit + _estimate_tokens(Marker)

\* C7 as stated: the emitted body ends with the marker line exactly when the
\* normalized text estimates to more than the limit.
C7_MarkerIffOverLimit ==
    tpc = "budgeted" =>
        (endswith(body, Marker) <=> _estimate_tokens(cleaned_content) > token_limit)

\* C7: a normalized text that estimates to more than the limit is emitted as
\* a proper prefix of itself followed by the marker line; one that estimates
\* to the limit or less is emitted unchanged, so that a cut is never emitted
\* without the marker, and a body within the limit ends with the marker line
\* only when the file's own text does.
C7_CutExactlyWhenOverLimit ==
    tpc = "budgeted" =>
        LET tokens == _estimate_tokens(cleaned_content)
            kept == SubSeq(body, 1, Len(body) - Len(Marker))
        IN /\ tokens > token_limit =>
                 /\ endswith(body, Marker)
                 /\ Len(kept) < Len(cleaned_content)
                 /\ kept = SubSeq(cleaned_content, 1, Len(kept))
           /\ tokens <= token_limit => body = cleaned_content

\* a text one token over the limit was cut and marked
C7_Witness ==
    /\ tpc = "budgeted"
    /\ _estimate_tokens(cleaned_content) = token_limit + 1
    /\ endswith(body, Marker)
    /\ body # cleaned_content

\* C14: for every recorded file, truncated or not, the token count in its
\* FileStats is _estimate_tokens of the body emitted for it, and its line
\* count is the number of lines of that body; the Project Structure shows
\* these counts.
C14_StatsDescribeEmittedBody ==
    /\ \A i \in 1..Len(flattened_content) :
          LET s == flattened_content[i]
          IN s.file \in DOMAIN file_stats =>
                /\ file_stats[s.file].tokens = _estimate_tokens(s.text)
                /\ file_stats[s.file].lines = Len(splitlines(s.text))
    /\ pc = "done" =>
          \A i \in 1..Len(output.source) :
              \E k \in 1..Len(output.structure) :
                  LET e == output.structure[k]
                  IN /\ e.kind = "file"
                     /\ e.name = str_basename(output.source[i].file)
                     /\ e.tokens = _estimate_tokens(output.source[i].text)
                     /\ e.lines = Len(splitlines(output.source[i].text))

(***************************************************************************)
(* Properties of rule conversion and matching.                             *)
(***************************************************************************)
\* a rule text without wildcard characters
Literal(s) == \A i \in 1..Len(s) : s[i] \notin {"*", "?"}

\* the text of a rule without the "/" that anchors it to the root
Unanchored(s) == IF startswith(s, <<"/">>) THEN Tail(s) ELSE s

\* C11: ** in a rule matches any sequence of characters, path separators
\* included (src/**/test.py matches src/a/test.py and src/a/b/test.py, a**b
\* matches ab), and the replacement of the single * that follows leaves what
\* was produced for ** as it was: for a rule pre**post with literal pre and
\* post, the converted rule is the anchor, pre, ".*", post and "$", and every
\* path that begins with pre and ends with post is matched.
C11_DoubleStarMatchesAnySequence ==
    rpc = "asked" =>
        \A k \in 1..(Len(rule) - 1) :
            LET pre == SubSeq(rule, 1, k - 1)
                post == SubSeq(rule, k + 2, Len(rule))
                p == relpath(asked_path)
            IN (/\ rule[k] = "*" /\ rule[k + 1] = "*"
                /\ Literal(pre) /\ Literal(post)
                /\ ~endswith(post, <<"/">>))
               => /\ compiled = (IF startswith(pre, <<"/">>) THEN <<"^">> ELSE SegmentStart)
                                    \o re_escape(Unanchored(pre)) \o <<".", "*">>
                                    \o re_escape(post) \o <<"$">>
                  /\ (/\ startswith(p, Unanchored(pre))
                      /\ endswith(p, post)
                      /\ Len(p) >= Len(Unanchored(pre)) + Len(post))
                     => matched

\* a rule text that is one name: no wildcard and no separator
PlainName(s) == s # <<>> /\ Literal(s) /\ \A i \in 1..Len(s) : s[i] # "/"

\* C12: a rule that starts with the path separator is anchored to the root:
\* under /foo alone, _should_ignore is true for the root-level entry foo and
\* false for sub/foo and for every other path, whereas the rule foo excludes
\* an entry named foo at the root and at any depth.
C12_LeadingSeparatorAnchorsToRoot ==
    rpc = "asked" =>
        /\ (startswith(rule, <<"/">>) /\ PlainName(Tail(rule)))
              => (ignored = "yes" <=> asked_path = <<Tail(rule)>>)
        /\ PlainName(rule)
              => (ignored = "yes" <=> asked_path[Len(asked_path)] = rule)

\* C13: for every rule text, the empty one included, the converted rule
\* accepts a path only through a match that extends to the end of the path,
\* so that no converted rule accepts a path whatever the path is.
C13_MatchExtendsToEndOfPath ==
    (rpc = "asked" /\ matched) =>
        \A e \in search_ends(compiled, relpath(asked_path)) :
            e = Len(relpath(asked_path)) + 1

(***************************************************************************)
(* Properties of the Project Structure.                                    *)
(***************************************************************************)
\* the directories that directly hold a recorded file, the root left out
RecordedDirs(stats) == {str_dirname(p) : p \in DOMAIN stats} \ {<<>>}

\* the names of the file entries listed directly under the header at
\* position h: the entries that follow it, one level deeper, up to the next
\* header or the next entry at another level
ListedUnder(structure, h) ==
    {structure[i].name : i \in {k \in (h + 1)..Len(structure) :
                                   \A m \in (h + 1)..k :
                                       /\ structure[m].kind = "file"
                                       /\ structure[m].indent = structure[h].indent + 1}}

\* C15: _generate_project_structure groups the recorded files by parent
\* directory: each directory that directly holds a recorded file has exactly
\* one header in the structure, and all its files are listed under that
\* header, also when the directory holds both files and subdirectories with
\* files.
C15_OneHeaderPerDirectory ==
    pc = "done" =>
        LET headers == {h \in 1..Len(output.structure) : output.structure[h].kind = "dir"}
        IN /\ Cardinality(headers) = Cardinality(RecordedDirs(file_stats))
           /\ \A d \in RecordedDirs(file_stats) :
                 \E h \in headers :
                     /\ output.structure[h].name = str_basename(d)
                     /\ output.structure[h].indent = Len(split(d, "/")) - 1
                     /\ ListedUnder(output.structure, h)
                            = {str_basename(p) : p \in {q \in DOMAIN file_stats : str_dirname(q) = d}}

(***************************************************************************)
(* Properties of repeated calls of flatten().                              *)
(***************************************************************************)
\* C16: flatten() is repeatable: a second or later call on the same object,
\* with the tree changed by nobody else, ends with the same file_stats, the
\* same document and the same rules in force as the call before; nothing of
\* the earlier call leaks into it, and the document the earlier call wrote
\* is never taken in as a source file, also when output_file lies below the
\* root and has a supported extension.
C16_FlattenIsRepeatable ==
    (pc = "done" /\ ~previous.none) =>
        /\ file_stats = previous.file_stats
        /\ output = previous.output
        /\ all_ignore_patterns = previous.all_ignore_patterns
        /\ output_file # OutsideRoot => relpath(output_file) \notin DOMAIN file_stats

====
